---------------------------- MODULE Spec2Model ----------------------------
(***************************************************************************)
(* The toy cycling algorithm of docs/guides/developer/writing_algorithms   *)
(* (make_parameters, get_next_index, MyPolicy, MyDesigner) and the disk    *)
(* problem's evaluate of docs/guides/user/search_spaces, as state          *)
(* machines.                                                               *)
(*                                                                         *)
(* Conventions.  A Python call that may raise is an operator returning     *)
(* [raised |-> <exception name or NoError>, value |-> <returned value>].   *)
(* An Optional value is a sequence of length 0 (None) or 1.  A Python list *)
(* is a sequence; Python's 0-based position p is position p + 1 here.  A   *)
(* method is an operator from the instance's attributes (self) to the      *)
(* attributes after the call and the value returned.                       *)
(*                                                                         *)
(* The code is modelled as written.  Two of its lines decide most of what  *)
(* follows: make_parameters tests the parameter type against               *)
(* pyvizier.ParamterType, a name the pyvizier module does not have, and    *)
(* MyPolicy leaves the abstract early_stop of Policy undefined.            *)
(***************************************************************************)
EXTENDS Integers, Sequences, FiniteSets, TLC

VARIABLES
    study_config,   \* the study's configuration (its search space)
    trials,         \* the datastore: the study's trial records, ascending id
    calls,          \* number of suggest requests the host has served
    frame,          \* the activation of suggest for the latest request
    designer,       \* attributes of the MyDesigner instance
    delivered,      \* the completed trials passed to designer.update so far
    dlast,          \* record of the latest call of the function under study
    suggestion,     \* the notebook global `suggestion` read by evaluate
    trial,          \* the vz.Trial handed to evaluate
    evaluated       \* outcome of the latest evaluate call

vars == <<study_config, trials, calls, frame, designer, delivered, dlast,
          suggestion, trial, evaluated>>

policyVars == <<calls, frame>>
designerVars == <<designer, delivered, dlast>>
diskVars == <<suggestion, trial, evaluated>>

(***************************************************************************)
(* Bounds of the model.                                                    *)
(***************************************************************************)
MaxTrials == 3
MaxCount == 3
MaxCalls == 2
MaxDelivered == 3
MaxBatch == 2

NoError == "NoError"
None == <<>>
Some(v) == <<v>>

Return(v) == [raised |-> NoError, value |-> v]
Raise(e) == [raised |-> e, value |-> <<>>]

\* Python's max over a non-empty list, and the builtin with its error on an
\* empty one.
RECURSIVE max(_)
max(ids) ==
    IF Len(ids) = 1 THEN ids[1]
    ELSE LET m == max(Tail(ids)) IN IF ids[1] >= m THEN ids[1] ELSE m

builtin_max(ids) == IF ids = <<>> THEN Raise("ValueError") ELSE Return(max(ids))

(***************************************************************************)
(* Search spaces.                                                          *)
(***************************************************************************)
CategoricalParam(name, feasible_values) ==
    [name |-> name, type |-> "CATEGORICAL", feasible_values |-> feasible_values]

FloatParam(name, min_value, max_value) ==
    [name |-> name, type |-> "DOUBLE", min_value |-> min_value,
     max_value |-> max_value]

IntParam(name, min_value, max_value) ==
    [name |-> name, type |-> "INTEGER", min_value |-> min_value,
     max_value |-> max_value]

StudyConfig(parameters) == [search_space |-> [parameters |-> parameters]]

\* The study configurations the model starts from: the flat problem's
\* categorical parameter, two categorical parameters of different sizes, a
\* search space with a parameter make_parameters is not written for, and
\* the search space of a study that declares no parameter.
StudyConfigs ==
    { StudyConfig(<<CategoricalParam("categorical", <<"a", "b", "c">>)>>),
      StudyConfig(<<CategoricalParam("optimizer", <<"sgd", "adam">>),
                    CategoricalParam("categorical", <<"a", "b", "c">>)>>),
      StudyConfig(<<CategoricalParam("categorical", <<"a", "b", "c">>),
                    IntParam("int", 1, 10)>>),
      StudyConfig(<<>>) }

\* A search space of CATEGORICAL parameters only: the search spaces the
\* cycling algorithm is described for.
AllCategorical(config) ==
    \A i \in DOMAIN config.search_space.parameters :
        config.search_space.parameters[i].type = "CATEGORICAL"

\* The assignment the cycling algorithm is described to propose for an
\* index: every parameter's feasible value at position index mod (number
\* of feasible values).
CyclingAssignment(config, index) ==
    LET ps == config.search_space.parameters IN
    [name \in {ps[i].name : i \in DOMAIN ps} |->
        LET pc == CHOOSE q \in {ps[i] : i \in DOMAIN ps} : q.name = name
        IN [value |-> pc.feasible_values[(index % Len(pc.feasible_values)) + 1]]]

(***************************************************************************)
(* pyvizier values.                                                        *)
(***************************************************************************)
ParameterDict == <<>>
ParameterValue(value) == [value |-> value]
SetItem(dict, key, item) ==
    [k \in DOMAIN dict \cup {key} |-> IF k = key THEN item ELSE dict[k]]
TrialSuggestion(parameters) == [parameters |-> parameters]
MetadataDelta == <<>>
SuggestRequest(config, count) == [study_config |-> config, count |-> count]
SuggestDecision(suggestions, metadata) ==
    [suggestions |-> suggestions, metadata |-> metadata]
CompletedTrials(completed) == [completed |-> completed]

(***************************************************************************)
(* make_parameters.  Its loop is written to give every CATEGORICAL         *)
(* parameter the feasible value at position index % len(feasible_values)   *)
(* and to raise ValueError for any other type; the test that chooses       *)
(* between the two reads pyvizier.ParamterType, and that attribute         *)
(* reference is evaluated first.                                           *)
(***************************************************************************)
\* The attributes of the pyvizier module the notebook refers to.
pyvizier ==
    {"StudyConfig", "ParameterDict", "ParameterType", "ParameterValue",
     "TrialStatus", "TrialSuggestion", "MetadataDelta"}

\* module.name: the attribute, or AttributeError when the module has none
\* of that name.
getattr(module, name) ==
    IF name \in module THEN Return(name) ELSE Raise("AttributeError")

RECURSIVE make_parameters_loop(_, _, _, _)
make_parameters_loop(parameters, index, i, parameter_dict) ==
    IF i > Len(parameters) THEN Return(parameter_dict)
    ELSE LET parameter_config == parameters[i]
             ParamterType == getattr(pyvizier, "ParamterType")
         IN IF ParamterType.raised # NoError THEN Raise(ParamterType.raised)
            ELSE IF parameter_config.type = "CATEGORICAL"
            THEN LET feasible_values == parameter_config.feasible_values
                     categorical_size == Len(feasible_values)
                 IN IF categorical_size = 0 THEN Raise("ZeroDivisionError")
                    ELSE make_parameters_loop(parameters, index, i + 1,
                           SetItem(parameter_dict, parameter_config.name,
                                   ParameterValue(
                                     feasible_values[
                                       (index % categorical_size) + 1])))
            ELSE Raise("ValueError")

make_parameters(config, index) ==
    make_parameters_loop(config.search_space.parameters, index, 1, ParameterDict)

(***************************************************************************)
(* The datastore and its client.  Trial records, their identifiers and     *)
(* their status transitions belong to the datastore.                       *)
(***************************************************************************)
NewTrial(id, parameters) ==
    [id |-> id, status |-> "ACTIVE", parameters |-> parameters,
     final_measurement |-> None, infeasibility_reason |-> None]

Trial_complete(t, measurement) ==
    [t EXCEPT !.status = "COMPLETED", !.final_measurement = Some(measurement)]

Trial_set_infeasibility_reason(t, reason) ==
    [t EXCEPT !.status = "COMPLETED", !.infeasibility_reason = Some(reason)]

Trial_stop(t) == [t EXCEPT !.status = "STOPPED"]

Measurement(metrics) == [metrics |-> metrics]

PolicySupporter == "PolicySupporter"

\* policy_supporter.GetTrials(status_matches=...): the study's trials of that
\* status, ascending identifier.
GetTrials(policy_supporter, status_matches) ==
    SelectSeq(trials, LAMBDA t : t.status = status_matches)

Ids(ts) == [i \in DOMAIN ts |-> ts[i].id]

(***************************************************************************)
(* get_next_index: the largest identifier of a COMPLETED trial, 0 if none. *)
(***************************************************************************)
\* A get_next_index that looks at the trials of every status.
get_next_index_unfiltered(policy_supporter) ==
    IF trials # <<>> THEN max(Ids(trials)) ELSE 0

\* A get_next_index that looks at the ACTIVE trials.
get_next_index_active(policy_supporter) ==
    LET active_trial_ids == Ids(GetTrials(policy_supporter, "ACTIVE")) IN
    IF active_trial_ids # <<>> THEN max(active_trial_ids) ELSE 0

\* A get_next_index that returns the identifier after the largest one.
get_next_index_plus_one(policy_supporter) ==
    LET completed_trial_ids == Ids(GetTrials(policy_supporter, "COMPLETED")) IN
    IF completed_trial_ids # <<>> THEN max(completed_trial_ids) + 1 ELSE 0

get_next_index(policy_supporter) ==
    LET completed_trial_ids == Ids(GetTrials(policy_supporter, "COMPLETED")) IN
    IF completed_trial_ids # <<>> THEN max(completed_trial_ids) ELSE 0

(***************************************************************************)
(* Policy, the abstract class, and MyPolicy.  Policy declares suggest and  *)
(* early_stop abstract; MyPolicy defines __init__ and suggest.  A class    *)
(* that leaves an inherited abstract method undefined cannot be            *)
(* instantiated: the call of the class raises TypeError before __init__    *)
(* runs.                                                                   *)
(***************************************************************************)
Policy_abstractmethods == {"suggest", "early_stop"}

MyPolicy_methods == {"__init__", "suggest"}

MyPolicy_init(policy_supporter) == [_policy_supporter |-> policy_supporter]

\* MyPolicy(policy_supporter)
MyPolicy(policy_supporter) ==
    IF Policy_abstractmethods \ MyPolicy_methods # {} THEN Raise("TypeError")
    ELSE Return(MyPolicy_init(policy_supporter))

(***************************************************************************)
(* MyPolicy.suggest, statement by statement, on the object it is called    *)
(* on: self, with the attribute __init__ sets.  The call meets the rest of *)
(* the system in one place only, the fetch of get_next_index, once per     *)
(* iteration of its loop.  A fetch may fail with the datastore's transient *)
(* error; get_next_index and suggest have no handler, so the exception     *)
(* leaves suggest.  The activation records, beside self and the locals of  *)
(* suggest, the datastore the call found, the outcome of every fetch it    *)
(* issued and every index it used.                                         *)
(***************************************************************************)
RetryableError == "RetryableError"

\* An entry that serves the first request of an instance only: it marks the
\* instance, and a marked instance has nothing left to propose.
MyPolicy_suggest_enter_once(self, request) ==
    [self |-> [k \in DOMAIN self \cup {"_served"} |->
                  IF k = "_served" THEN TRUE ELSE self[k]],
     request |-> request,
     remaining |-> IF "_served" \in DOMAIN self THEN 0 ELSE request.count,
     suggest_decision_list |-> <<>>, pc |-> "for", ret |-> None,
     fetches |-> <<>>, indices |-> <<>>, datastore |-> trials]

\* Entry of suggest(request): suggest_decision_list = [] and the loop ahead.
MyPolicy_suggest_enter(self, request) ==
    [self |-> self, request |-> request, remaining |-> request.count,
     suggest_decision_list |-> <<>>, pc |-> "for", ret |-> None,
     fetches |-> <<>>, indices |-> <<>>, datastore |-> trials]

\* The body of the loop when its fetch succeeds.
MyPolicy_suggest_body(self, f) ==
    LET index == get_next_index(self._policy_supporter)
        parameters == make_parameters(f.request.study_config, index)
        fetched == [f EXCEPT !.fetches = Append(@, NoError),
                             !.indices = Append(@, index)]
    IN IF parameters.raised # NoError
       THEN [fetched EXCEPT !.pc = "raised",
                            !.ret = Some(Raise(parameters.raised))]
       ELSE [fetched EXCEPT !.remaining = @ - 1,
                            !.suggest_decision_list =
                                Append(@, TrialSuggestion(parameters.value))]

\* An iteration that answers a failed fetch by going round the loop again.
MyPolicy_suggest_iteration_retry(self, f, fault) ==
    IF fault # NoError
    THEN [f EXCEPT !.fetches = Append(@, fault)]
    ELSE MyPolicy_suggest_body(self, f)

\* One iteration of `for _ in range(request.count)`; fault is the error of
\* the fetch it issues, NoError when the fetch succeeds.
MyPolicy_suggest_iteration(self, f, fault) ==
    IF fault # NoError
    THEN [f EXCEPT !.fetches = Append(@, fault),
                   !.pc = "raised", !.ret = Some(Raise(fault))]
    ELSE MyPolicy_suggest_body(self, f)

\* A return that reports the number of suggestions in the metadata delta.
MyPolicy_suggest_return_annotating(self, f) ==
    [f EXCEPT !.pc = "returned",
              !.ret = Some(Return(SuggestDecision(
                              f.suggest_decision_list,
                              <<Len(f.suggest_decision_list)>>)))]

\* The return statement after the loop.
MyPolicy_suggest_return(self, f) ==
    [f EXCEPT !.pc = "returned",
              !.ret = Some(Return(SuggestDecision(f.suggest_decision_list,
                                                  MetadataDelta)))]

\* suggest from an activation to its end, on a datastore that answers every
\* fetch and does not change meanwhile.
RECURSIVE MyPolicy_suggest_run(_)
MyPolicy_suggest_run(f) ==
    IF f.pc # "for" THEN f
    ELSE IF f.remaining = 0 THEN MyPolicy_suggest_return(f.self, f)
    ELSE MyPolicy_suggest_run(MyPolicy_suggest_iteration(f.self, f, NoError))

\* self.suggest(request) on such a datastore: the activation at its end.
MyPolicy_suggest(self, request) ==
    MyPolicy_suggest_run(MyPolicy_suggest_enter(self, request))

(***************************************************************************)
(* MyDesigner.                                                             *)
(***************************************************************************)
MyDesigner_init(config) ==
    [_study_config |-> config, _completed_trials |-> <<>>]

\* An update that overwrites the stored trials with the batch.
MyDesigner_update_replace(self, delta) ==
    [self EXCEPT !._completed_trials = delta.completed]

MyDesigner_update(self, delta) ==
    [self EXCEPT !._completed_trials = @ \o delta.completed]

\* [make_parameters(self._study_config, current_index + i) for i in range(count)]
RECURSIVE MyDesigner_suggest_loop(_, _, _, _, _)
MyDesigner_suggest_loop(self, current_index, count, i, out) ==
    IF i >= count THEN Return(out)
    ELSE LET parameters == make_parameters(self._study_config, current_index + i)
         IN IF parameters.raised # NoError THEN Raise(parameters.raised)
            ELSE MyDesigner_suggest_loop(self, current_index, count, i + 1,
                                         Append(out, parameters.value))

\* A suggest that looks for the largest identifier before it looks at count.
MyDesigner_suggest_none_late(self, count) ==
    LET completed_trial_ids == Ids(self._completed_trials)
        current_index == builtin_max(completed_trial_ids)
    IN IF current_index.raised # NoError
       THEN [self |-> self, ret |-> Raise(current_index.raised)]
       ELSE IF count = None THEN [self |-> self, ret |-> Return(<<>>)]
       ELSE [self |-> self,
             ret |-> MyDesigner_suggest_loop(self, current_index.value,
                                             count[1], 0, <<>>)]

\* A current index that is the identifier of the trial delivered last.
MyDesigner_suggest_current_index_last(self) ==
    LET completed_trial_ids == Ids(self._completed_trials) IN
    IF completed_trial_ids = <<>> THEN Raise("ValueError")
    ELSE Return(completed_trial_ids[Len(completed_trial_ids)])

\* completed_trial_ids = [t.id for t in self._completed_trials]
\* current_index = max(completed_trial_ids)
MyDesigner_suggest_current_index(self) ==
    LET completed_trial_ids == Ids(self._completed_trials) IN
    builtin_max(completed_trial_ids)

MyDesigner_suggest(self, count) ==
    IF count = None THEN [self |-> self, ret |-> Return(<<>>)]
    ELSE LET current_index == MyDesigner_suggest_current_index(self)
         IN IF current_index.raised # NoError
            THEN [self |-> self, ret |-> Raise(current_index.raised)]
            ELSE [self |-> self,
                  ret |-> MyDesigner_suggest_loop(self, current_index.value,
                                                  count[1], 0, <<>>)]

(***************************************************************************)
(* DesignerPolicy(supporter, designer_factory).suggest, full reconstruction:*)
(* a fresh designer, every COMPLETED trial replayed in ascending           *)
(* identifier order, then suggest(count).                                  *)
(***************************************************************************)
designer_factory(config) == MyDesigner_init(config)

DesignerPolicy_suggest(policy_supporter, request) ==
    LET fresh == designer_factory(request.study_config)
        completed == GetTrials(policy_supporter, "COMPLETED")
        replayed == MyDesigner_update(fresh, CompletedTrials(completed))
        out == MyDesigner_suggest(replayed, Some(request.count)).ret
    IN IF out.raised # NoError THEN Raise(out.raised)
       ELSE Return(SuggestDecision(
                [i \in DOMAIN out.value |-> TrialSuggestion(out.value[i])],
                MetadataDelta))

(***************************************************************************)
(* The hosted study: the datastore's transitions, made by the clients of   *)
(* the study, the requests the host serves through MyPolicy(...), and the  *)
(* calls of the function MyPolicy.suggest, each followed statement by      *)
(* statement while the clients go on.                                      *)
(***************************************************************************)
\* An assignment a client of the study may add on its own: every
\* parameter's first feasible value (its lower bound for a numeric one).
ClientParameters(config) ==
    LET ps == config.search_space.parameters IN
    [n \in {ps[i].name : i \in DOMAIN ps} |->
        LET pc == CHOOSE q \in {ps[i] : i \in DOMAIN ps} : q.name = n IN
        ParameterValue(IF pc.type = "CATEGORICAL" THEN pc.feasible_values[1]
                       ELSE pc.min_value)]

Measurements == {Measurement([obj |-> 0]), Measurement([obj |-> 1])}

AddTrial(parameters) ==
    /\ Len(trials) < MaxTrials
    /\ trials' = Append(trials, NewTrial(Len(trials) + 1, parameters))
    /\ UNCHANGED <<study_config, policyVars, designerVars, diskVars>>

CompleteTrial(i, measurement) ==
    /\ trials[i].status = "ACTIVE"
    /\ trials' = [trials EXCEPT ![i] = Trial_complete(@, measurement)]
    /\ UNCHANGED <<study_config, policyVars, designerVars, diskVars>>

StopTrial(i) ==
    /\ trials[i].status = "ACTIVE"
    /\ trials' = [trials EXCEPT ![i] = Trial_stop(@)]
    /\ UNCHANGED <<study_config, policyVars, designerVars, diskVars>>

\* The host serves a request: policy = MyPolicy(policy_supporter), then
\* policy.suggest(request).  Where the class call raises, suggest is not
\* entered, no fetch is issued, and the request ends with that exception.
Serve(request) ==
    LET created == MyPolicy(PolicySupporter) IN
    IF created.raised # NoError
    THEN [request |-> request, pc |-> "raised",
          ret |-> Some(Raise(created.raised)), fetches |-> <<>>,
          datastore |-> trials]
    ELSE MyPolicy_suggest_enter(created.value, request)

\* The activations of suggest, among the records of requests and calls.
Entered(f) == "self" \in DOMAIN f

ServeRequest(count) ==
    /\ calls < MaxCalls
    /\ IF frame = None THEN TRUE ELSE frame[1].pc # "for"
    /\ frame' = Some(Serve(SuggestRequest(study_config, count)))
    /\ calls' = calls + 1
    /\ UNCHANGED <<study_config, trials, designerVars, diskVars>>

\* The function MyPolicy.suggest called with its two arguments,
\* MyPolicy.suggest(self, request): self is an object that holds a policy
\* supporter in _policy_supporter, as the assignment of __init__ leaves it
\* (suggest reads nothing else of self), and the same object from call to
\* call.  No class call MyPolicy(...) is part of this step.
CallSuggest(count) ==
    /\ calls < MaxCalls
    /\ IF frame = None THEN TRUE ELSE frame[1].pc # "for"
    /\ LET self == IF frame # None /\ Entered(frame[1]) THEN frame[1].self
                   ELSE MyPolicy_init(PolicySupporter)
       IN frame' = Some(MyPolicy_suggest_enter(
                            self, SuggestRequest(study_config, count)))
    /\ calls' = calls + 1
    /\ UNCHANGED <<study_config, trials, designerVars, diskVars>>

SuggestIteration(fault) ==
    /\ frame # None
    /\ frame[1].pc = "for"
    /\ frame[1].remaining > 0
    /\ frame' = Some(MyPolicy_suggest_iteration(frame[1].self, frame[1], fault))
    /\ UNCHANGED <<study_config, trials, calls, designerVars, diskVars>>

SuggestReturn ==
    /\ frame # None
    /\ frame[1].pc = "for"
    /\ frame[1].remaining = 0
    /\ frame' = Some(MyPolicy_suggest_return(frame[1].self, frame[1]))
    /\ UNCHANGED <<study_config, trials, calls, designerVars, diskVars>>

\* The request or call made again, the way it was made, on the datastore as
\* it is now: through the class call, or suggest on an object given.
Again(f, self) ==
    IF Entered(f) THEN MyPolicy_suggest(self, f.request) ELSE Serve(f.request)

\* A request or call that has ended, every fetch of which the datastore
\* answered.
Ended(f) ==
    /\ f.pc # "for"
    /\ \A i \in DOMAIN f.fetches : f.fetches[i] = NoError

\* The COMPLETED trials among the trials of a datastore.
Completed(ts) == SelectSeq(ts, LAMBDA t : t.status = "COMPLETED")

DesignerIdle ==
    /\ designer = <<>>
    /\ delivered = <<>>
    /\ dlast = [op |-> "none"]

DiskIdle ==
    /\ suggestion = None
    /\ trial = None
    /\ evaluated = None

Init ==
    /\ study_config \in StudyConfigs
    /\ trials = <<>>
    /\ calls = 0
    /\ frame = None
    /\ DesignerIdle
    /\ DiskIdle

\* The measurements recorded in the study whose calls of suggest are
\* followed step by step: suggest and get_next_index read no measurement.
StudyMeasurements == {Measurement([obj |-> 0])}

Next ==
    \/ AddTrial(ClientParameters(study_config))
    \/ \E i \in DOMAIN trials, measurement \in StudyMeasurements :
          CompleteTrial(i, measurement)
    \/ \E i \in DOMAIN trials : StopTrial(i)
    \/ \E count \in 0..MaxCount : ServeRequest(count)
    \/ \E count \in 0..MaxCount : CallSuggest(count)
    \/ \E fault \in {NoError, RetryableError} : SuggestIteration(fault)
    \/ SuggestReturn

Spec == Init /\ [][Next]_vars

(***************************************************************************)
(* get_next_index called on its own, again and again, while the clients of *)
(* the study change the datastore; and the class MyPolicy called.          *)
(***************************************************************************)
GetNextIndex ==
    /\ dlast' = [op |-> "get_next_index",
                 ret |-> get_next_index(PolicySupporter),
                 before |-> IF dlast.op = "get_next_index"
                            THEN Some(dlast.ret) ELSE None]
    /\ UNCHANGED <<study_config, trials, policyVars, designer, delivered,
                   diskVars>>

\* MyPolicy(policy_supporter) evaluated.
CreatePolicy ==
    /\ dlast' = [op |-> "MyPolicy", ret |-> MyPolicy(PolicySupporter)]
    /\ UNCHANGED <<study_config, trials, policyVars, designer, delivered,
                   diskVars>>

NextIndex ==
    \/ CreatePolicy
    \/ AddTrial(ClientParameters(study_config))
    \/ \E i \in DOMAIN trials, measurement \in Measurements :
          CompleteTrial(i, measurement)
    \/ \E i \in DOMAIN trials : StopTrial(i)
    \/ GetNextIndex

SpecIndex == Init /\ [][NextIndex]_vars

(***************************************************************************)
(* A designer used in process: update calls with batches of completed      *)
(* trials (any order, repeats allowed, possibly empty) and suggest calls.  *)
(* Between two calls the host may drop the instance and recover it from    *)
(* its saved state (incremental mode).                                     *)
(***************************************************************************)
MyDesigner_dump(self) == [completed |-> self._completed_trials]

MyDesigner_recover(config, state) ==
    [MyDesigner_init(config) EXCEPT !._completed_trials = state.completed]

BoundedSeq(S, n) == UNION {[1..k -> S] : k \in 0..n}

CompletedPool(config) ==
    {Trial_complete(NewTrial(id, ClientParameters(config)), measurement) :
        id \in 1..MaxTrials, measurement \in Measurements}

Counts == {None} \cup {Some(n) : n \in 0..MaxCount}

\* The trials of a set in ascending identifier order, each once: the
\* delivery of a full replay.
RECURSIVE AscendingOnce(_)
AscendingOnce(S) ==
    IF S = {} THEN <<>>
    ELSE LET first == CHOOSE t \in S : \A u \in S : t.id <= u.id
         IN <<first>> \o AscendingOnce(S \ {first})

DesignerUpdate(batch, recovered) ==
    /\ Len(delivered) + Len(batch) <= MaxDelivered
    /\ LET self == IF recovered
                   THEN MyDesigner_recover(study_config, MyDesigner_dump(designer))
                   ELSE designer
       IN /\ designer' = MyDesigner_update(self, CompletedTrials(batch))
          /\ dlast' = [op |-> "update", batch |-> batch, recovered |-> recovered,
                       before |-> designer]
    /\ delivered' = delivered \o batch
    /\ UNCHANGED <<study_config, trials, policyVars, diskVars>>

DesignerSuggest(count) ==
    /\ LET called == MyDesigner_suggest(designer, count)
       IN /\ designer' = called.self
          /\ dlast' = [op |-> "suggest", count |-> count, ret |-> called.ret,
                       before |-> designer]
    /\ UNCHANGED <<study_config, trials, delivered, policyVars, diskVars>>

PolicyIdle ==
    /\ trials = <<>>
    /\ calls = 0
    /\ frame = None

InitDesigner ==
    /\ study_config \in StudyConfigs
    /\ designer = MyDesigner_init(study_config)
    /\ delivered = <<>>
    /\ dlast = [op |-> "none"]
    /\ PolicyIdle
    /\ DiskIdle

NextDesigner ==
    \/ \E batch \in BoundedSeq(CompletedPool(study_config), MaxBatch),
          recovered \in BOOLEAN : DesignerUpdate(batch, recovered)
    \/ \E count \in Counts : DesignerSuggest(count)

SpecDesigner == InitDesigner /\ [][NextDesigner]_vars


(***************************************************************************)
(* make_parameters on its own: the empty search space and every search     *)
(* space of one or two parameters, each CATEGORICAL over a list of         *)
(* distinct values or an INTEGER, and every index up to MaxIndex.          *)
(***************************************************************************)
MaxIndex == 5

Values == {"a", "b", "c"}

FeasibleLists ==
    {fv \in BoundedSeq(Values, Cardinality(Values)) :
        /\ fv # <<>>
        /\ \A i, j \in DOMAIN fv : i # j => fv[i] # fv[j]}

ParamsNamed(name) ==
    {CategoricalParam(name, fv) : fv \in FeasibleLists} \cup {IntParam(name, 1, 10)}

SearchSpaces ==
    {<<>>}
    \cup {<<p>> : p \in ParamsNamed("categorical")}
    \cup {<<p, q>> : p \in ParamsNamed("categorical"), q \in ParamsNamed("optimizer")}

MakeParameters(index) ==
    /\ dlast' = [op |-> "make_parameters", index |-> index,
                 ret |-> make_parameters(study_config, index)]
    /\ UNCHANGED <<study_config, trials, policyVars, designer, delivered, diskVars>>

InitParams ==
    /\ study_config \in {StudyConfig(ps) : ps \in SearchSpaces}
    /\ DesignerIdle
    /\ PolicyIdle
    /\ DiskIdle

NextParams == \E index \in 0..MaxIndex : MakeParameters(index)

SpecParams == InitParams /\ [][NextParams]_vars

(***************************************************************************)
(* The disk problem: evaluate(trial).  Its body reads x and y from the     *)
(* name `suggestion`, which is not its parameter: a global of the notebook *)
(* session, unbound until the session binds it.                            *)
(***************************************************************************)
MaxCoord == 2

disk_problem == StudyConfig(<<FloatParam("x", -1, 1), FloatParam("y", -1, 1)>>)

Points == [x : (-MaxCoord)..MaxCoord, y : (-MaxCoord)..MaxCoord]

InDisk(p) == p.x * p.x + p.y * p.y <= 1

evaluate(t) ==
    IF suggestion = None THEN [trial |-> t, ret |-> Raise("NameError")]
    ELSE LET x == suggestion[1].parameters.x
             y == suggestion[1].parameters.y
             done == IF x * x + y * y <= 1
                     THEN Trial_complete(t, Measurement([sum |-> x + y]))
                     ELSE Trial_set_infeasibility_reason(t, "Outside of range.")
         IN [trial |-> done, ret |-> Return(done)]

BindSuggestion(point) ==
    /\ suggestion' = Some(TrialSuggestion(point))
    /\ UNCHANGED <<study_config, trials, policyVars, designerVars, trial, evaluated>>

NewDiskTrial(point) ==
    /\ trial' = Some(NewTrial(1, point))
    /\ evaluated' = None
    /\ UNCHANGED <<study_config, trials, policyVars, designerVars, suggestion>>

Evaluate ==
    /\ trial # None
    /\ LET called == evaluate(trial[1])
       IN /\ trial' = Some(called.trial)
          /\ evaluated' = Some([before |-> trial[1], ret |-> called.ret])
    /\ UNCHANGED <<study_config, trials, policyVars, designerVars, suggestion>>

InitDisk ==
    /\ study_config = disk_problem
    /\ DesignerIdle
    /\ PolicyIdle
    /\ DiskIdle

NextDisk ==
    \/ \E point \in Points : BindSuggestion(point)
    \/ \E point \in Points : NewDiskTrial(point)
    \/ Evaluate

SpecDisk == InitDisk /\ [][NextDisk]_vars

(***************************************************************************)
(* The conditional problem.  The search space is a tree: select(name,      *)
(* matching_values) gives a handle under the parameter `name`, and a       *)
(* parameter added through that handle is a child of `name`, active when   *)
(* the value of `name` is one of matching_values.  Float bounds are        *)
(* written in units of 0.0001.                                             *)
(***************************************************************************)
\* select(parent.name, matching_values).add_<type>_param(child)
AddChild(parent, matching_values, child) ==
    [k \in DOMAIN parent \cup {"children"} |->
        IF k = "children"
        THEN (IF "children" \in DOMAIN parent THEN parent.children ELSE <<>>)
             \o <<[matching_values |-> matching_values, parameter |-> child]>>
        ELSE parent[k]]

\* A declaration that adds adam_beta2 through the sgd handle.
conditional_problem_misplaced ==
    LET optimizer == CategoricalParam("optimizer", <<"sgd", "adam">>)
        sgd == <<"sgd">>
        adam == <<"adam">>
    IN StudyConfig(<<
         AddChild(
           AddChild(
             AddChild(
               AddChild(optimizer,
                        sgd, FloatParam("sgd_learning_rate", 1, 10000)),
               adam, FloatParam("adam_learning_rate", 1, 10000)),
             adam, FloatParam("adam_beta1", 0, 10000)),
           sgd, FloatParam("adam_beta2", 0, 10000)) >>)

conditional_problem ==
    LET optimizer == CategoricalParam("optimizer", <<"sgd", "adam">>)
        sgd == <<"sgd">>
        adam == <<"adam">>
    IN StudyConfig(<<
         AddChild(
           AddChild(
             AddChild(
               AddChild(optimizer,
                        sgd, FloatParam("sgd_learning_rate", 1, 10000)),
               adam, FloatParam("adam_learning_rate", 1, 10000)),
             adam, FloatParam("adam_beta1", 0, 10000)),
           adam, FloatParam("adam_beta2", 0, 10000)) >>)

SgdParameters == {"sgd_learning_rate"}
AdamParameters == {"adam_learning_rate", "adam_beta1", "adam_beta2"}

\* The active parameters of an assignment: the walk from the root that
\* follows the children whose condition the parent's value matches.
RECURSIVE ActiveParameters(_, _)
ActiveParameters(parameters, assignment) ==
    UNION {
      LET parameter_config == parameters[i]
          matching ==
            IF /\ parameter_config.name \in DOMAIN assignment
               /\ "children" \in DOMAIN parameter_config
            THEN {c \in {parameter_config.children[j] :
                            j \in DOMAIN parameter_config.children} :
                    \E m \in DOMAIN c.matching_values :
                       c.matching_values[m]
                         = assignment[parameter_config.name].value}
            ELSE {}
      IN {parameter_config.name}
         \cup UNION {ActiveParameters(<<c.parameter>>, assignment) : c \in matching}
      : i \in DOMAIN parameters }

\* Flattening an assignment against the space: its active part.
Flatten(config, assignment) ==
    LET active == ActiveParameters(config.search_space.parameters, assignment)
    IN [name \in DOMAIN assignment \cap active |-> assignment[name]]

\* The assignments handed to flattening: a value of optimizer and values
\* (in the children's bounds) of any of the child parameters.
ConditionalAssignments ==
    UNION {
      {[name \in given \cup {"optimizer"} |->
           ParameterValue(IF name = "optimizer" THEN optimizer ELSE value[name])] :
         optimizer \in {"sgd", "adam"}, value \in [given -> {1, 10000}]}
      : given \in SUBSET (SgdParameters \cup AdamParameters) }

FlattenAssignment(assignment) ==
    /\ dlast' = [op |-> "flatten", assignment |-> assignment,
                 ret |-> Flatten(study_config, assignment)]
    /\ UNCHANGED <<study_config, trials, policyVars, designer, delivered, diskVars>>

InitConditional ==
    /\ study_config = conditional_problem
    /\ DesignerIdle
    /\ PolicyIdle
    /\ DiskIdle

NextConditional ==
    \E assignment \in ConditionalAssignments : FlattenAssignment(assignment)

SpecConditional == InitConditional /\ [][NextConditional]_vars

(***************************************************************************)
(* The permutation problem: the integer search space of Lehmer codes and   *)
(* the reparameterization phi onto the permutations of size N.  The        *)
(* notebook sets N = 10; the model runs the same code for a smaller N.     *)
(***************************************************************************)
N == 5

str(n) == ToString(n)

RECURSIVE math_factorial(_)
math_factorial(n) == IF n = 0 THEN 1 ELSE n * math_factorial(n - 1)

\* for n in range(N): add_int_param(name=str(n), min_value=0, max_value=n)
permutation_problem ==
    StudyConfig([i \in 1..N |-> IntParam(str(i - 1), 0, i - 1)])

\* trial.parameters.get_value(name)
get_value(parameters, name) == parameters[name].value

\* list.remove(value): the list without the first occurrence of value.
list_remove(list, value) ==
    LET i == CHOOSE i \in DOMAIN list :
                 list[i] = value /\ \A j \in 1..(i - 1) : list[j] # value
    IN SubSeq(list, 1, i - 1) \o SubSeq(list, i + 1, Len(list))

\* A loop that weighs parameter n by n instead of n!.
RECURSIVE compute_index_loop_linear(_, _, _)
compute_index_loop_linear(t, n, index) ==
    IF n >= N THEN index
    ELSE compute_index_loop_linear(t, n + 1,
            index + get_value(t.parameters, str(n)) * n)

RECURSIVE compute_index_loop(_, _, _)
compute_index_loop(t, n, index) ==
    IF n >= N THEN index
    ELSE compute_index_loop(t, n + 1,
            index + get_value(t.parameters, str(n)) * math_factorial(n))

compute_index(t) == compute_index_loop(t, 0, 0)

\* A loop that leaves all_indices as it is.
RECURSIVE compute_permutation_loop_no_remove(_, _, _, _)
compute_permutation_loop_no_remove(k, all_indices, temp_index, output) ==
    IF k > N THEN Return(output)
    ELSE LET factorial_value == math_factorial(N - k)
             position == temp_index \div factorial_value
         IN IF position >= Len(all_indices) THEN Raise("IndexError")
            ELSE LET value == all_indices[position + 1]
                 IN compute_permutation_loop_no_remove(k + 1,
                        all_indices,
                        temp_index % factorial_value,
                        Append(output, value))

\* for k in range(1, N + 1): ... ; a position past the end of all_indices
\* raises IndexError.
RECURSIVE compute_permutation_loop(_, _, _, _)
compute_permutation_loop(k, all_indices, temp_index, output) ==
    IF k > N THEN Return(output)
    ELSE LET factorial_value == math_factorial(N - k)
             position == temp_index \div factorial_value
         IN IF position >= Len(all_indices) THEN Raise("IndexError")
            ELSE LET value == all_indices[position + 1]
                 IN compute_permutation_loop(k + 1,
                        list_remove(all_indices, value),
                        temp_index % factorial_value,
                        Append(output, value))

compute_permutation(index) ==
    compute_permutation_loop(1, [i \in 1..N |-> i - 1], index, <<>>)

phi(t) == compute_permutation(compute_index(t))

\* The value sequences of the search space: position n + 1 holds a value of
\* parameter str(n), within its bounds.
RECURSIVE LehmerCodes(_)
LehmerCodes(n) ==
    IF n = 0 THEN {<<>>}
    ELSE LET parameter_config == permutation_problem.search_space.parameters[n]
         IN {Append(code, value) :
                code \in LehmerCodes(n - 1),
                value \in parameter_config.min_value..parameter_config.max_value}

\* The trial that assigns the values of a code to the parameters.
PermutationTrial(code) ==
    NewTrial(1, [name \in {str(n) : n \in 0..(N - 1)} |->
                    ParameterValue(
                        code[(CHOOSE n \in 0..(N - 1) : str(n) = name) + 1])])

\* The permutations of a set, as lists.
RECURSIVE PermutationLists(_)
PermutationLists(S) ==
    IF S = {} THEN {<<>>}
    ELSE UNION {{<<x>> \o p : p \in PermutationLists(S \ {x})} : x \in S}

Phi(code) ==
    /\ dlast' = [op |-> "phi", trial |-> PermutationTrial(code),
                 ret |-> phi(PermutationTrial(code))]
    /\ UNCHANGED <<study_config, trials, policyVars, designer, delivered, diskVars>>

\* A permutation is named, to be reached through phi.
WantPermutation(permutation) ==
    /\ dlast' = [op |-> "want", permutation |-> permutation]
    /\ UNCHANGED <<study_config, trials, policyVars, designer, delivered, diskVars>>

InitPermutation ==
    /\ study_config = permutation_problem
    /\ DesignerIdle
    /\ PolicyIdle
    /\ DiskIdle

NextPermutation ==
    \/ \E code \in LehmerCodes(N) : Phi(code)
    \/ \E permutation \in PermutationLists(0..(N - 1)) : WantPermutation(permutation)

SpecPermutation == InitPermutation /\ [][NextPermutation]_vars


(***************************************************************************)
(*                              The claims                                 *)
(***************************************************************************)

\* C1 (Spec).  Determinism: when a call of suggest that the datastore
\* answered has ended, suggest on an object initialised independently and
\* given the same request on the same COMPLETED history ends the same way
\* (the same decision or the same exception) from the same indices, and a
\* request served through MyPolicy(...) ends as the same request served
\* through another MyPolicy(...) ends; and two MyDesigner
\* instances constructed independently and fed that history, in one batch or
\* in two, propose from the same index and return the same for that count.
C1_Determinism ==
    frame # None =>
        LET f == frame[1]
            completed == Completed(f.datastore)
            other == Again(f, MyPolicy_init(PolicySupporter))
            one == MyDesigner_update(MyDesigner_init(study_config),
                                     CompletedTrials(completed))
        IN /\ (Ended(f) /\ GetTrials(PolicySupporter, "COMPLETED") = completed)
                 => /\ other.ret = f.ret
                    /\ Entered(f) =>
                          /\ other.suggest_decision_list
                               = f.suggest_decision_list
                          /\ other.indices = f.indices
           /\ \A k \in 0..Len(completed) :
                 LET two == MyDesigner_update(
                                MyDesigner_update(
                                    MyDesigner_init(study_config),
                                    CompletedTrials(SubSeq(completed, 1, k))),
                                CompletedTrials(
                                    SubSeq(completed, k + 1, Len(completed))))
                 IN /\ MyDesigner_suggest_current_index(two)
                         = MyDesigner_suggest_current_index(one)
                    /\ MyDesigner_suggest(two, Some(f.request.count)).ret
                         = MyDesigner_suggest(one, Some(f.request.count)).ret

\* A second call of suggest has ended with a decision of two suggestions, on
\* a history of two COMPLETED trials that did not change during the call.
C1_Witness ==
    /\ frame # None
    /\ calls = 2
    /\ Entered(frame[1])
    /\ Ended(frame[1])
    /\ frame[1].pc = "returned"
    /\ Len(frame[1].ret[1].value.suggestions) = 2
    /\ Len(Completed(frame[1].datastore)) = 2
    /\ GetTrials(PolicySupporter, "COMPLETED") = Completed(frame[1].datastore)

\* C2 (Spec).  MyPolicy is stateless: the object suggest is called on holds
\* its policy supporter and nothing else, whatever calls it served before,
\* and a call that has ended on a datastore that is still the one it found
\* ended as the call of a freshly initialised object on that datastore and
\* that request ends (a request served through MyPolicy(...): as the request
\* served through a new MyPolicy(...) ends).
C2_Stateless ==
    frame # None =>
        LET f == frame[1]
            fresh == Again(f, MyPolicy_init(PolicySupporter))
        IN /\ Entered(f) => f.self = MyPolicy_init(PolicySupporter)
           /\ (Ended(f) /\ trials = f.datastore) => f.ret = fresh.ret

\* The object has served a call before, the datastore changed since, and the
\* second call ended with a decision of at least one suggestion on a
\* datastore with a COMPLETED trial.
C2_Witness ==
    /\ frame # None
    /\ calls = 2
    /\ Entered(frame[1])
    /\ frame[1].pc = "returned"
    /\ Ended(frame[1])
    /\ frame[1].ret[1].value.suggestions # <<>>
    /\ trials = frame[1].datastore
    /\ GetTrials(PolicySupporter, "COMPLETED") # <<>>

\* C3 (Spec), as claimed: the DesignerPolicy wrapper around MyDesigner ends a
\* request as MyPolicy.suggest ends it, for every COMPLETED history and every
\* count.
C3_WrapperIsMyPolicy ==
    frame # None =>
        LET f == frame[1] IN
        (Ended(f)
         /\ GetTrials(PolicySupporter, "COMPLETED") = Completed(f.datastore)) =>
            f.ret = Some(DesignerPolicy_suggest(PolicySupporter, f.request))

\* C4 (SpecDesigner).  Incremental against full reconstruction: the designer
\* that was updated batch by batch (recovered from its saved state or not
\* before each batch) returns, for every count, what a fresh designer returns
\* after one update with everything delivered so far.
C4_IncrementalIsFull ==
    \A count \in Counts :
        MyDesigner_suggest(designer, count).ret
          = MyDesigner_suggest(
              MyDesigner_update(MyDesigner_init(study_config),
                                CompletedTrials(delivered)), count).ret

\* A designer recovered from a non-empty saved state has just been updated
\* with a non-empty delta.
C4_Witness ==
    /\ dlast.op = "update"
    /\ dlast.recovered
    /\ dlast.batch # <<>>
    /\ dlast.before._completed_trials # <<>>

\* C5 (SpecDesigner), as claimed: with m the largest identifier delivered by
\* update, suggest(count) returns in order the assignments of the cycling
\* algorithm for the indices m + 1, ..., m + count; after the trials 1, 2, 3
\* suggest(3) returns those for 4, 5, 6.
C5_CyclesFromMaxIdPlusOne ==
    (/\ dlast.op = "suggest"
     /\ dlast.count # None
     /\ delivered # <<>>
     /\ AllCategorical(study_config))
    => LET m == max(Ids(delivered)) IN
       dlast.ret = Return([j \in 1..dlast.count[1] |->
                              CyclingAssignment(study_config, m + j)])

\* C6 (SpecParams), as claimed.  For an all-CATEGORICAL search space
\* make_parameters returns an assignment of every parameter, each to the
\* feasible value at position index mod (number of feasible values), a member
\* of the feasible values; for [a, b, c] and index 4 that is b.
C6_ValueAtIndexModSize ==
    (dlast.op = "make_parameters" /\ AllCategorical(study_config)) =>
        LET ps == study_config.search_space.parameters IN
        /\ dlast.ret.raised = NoError
        /\ DOMAIN dlast.ret.value = {ps[i].name : i \in DOMAIN ps}
        /\ \A i \in DOMAIN ps :
              LET fv == ps[i].feasible_values
                  v == dlast.ret.value[ps[i].name].value
              IN /\ v = fv[(dlast.index % Len(fv)) + 1]
                 /\ \E k \in DOMAIN fv : v = fv[k]
                 /\ (fv = <<"a", "b", "c">> /\ dlast.index = 4) => v = "b"

\* C7 (SpecDesigner), as claimed: for every count >= 0, MyDesigner.suggest and
\* MyPolicy.suggest return a sequence of at most count assignments, whatever
\* the completed history, the empty one included.
C7_AtMostCount ==
    AllCategorical(study_config) =>
        /\ (dlast.op = "suggest" /\ dlast.count # None) =>
              /\ dlast.ret.raised = NoError
              /\ Len(dlast.ret.value) <= dlast.count[1]
        /\ \A count \in 0..MaxCount :
              LET f == MyPolicy_suggest(MyPolicy_init(PolicySupporter),
                                        SuggestRequest(study_config, count))
              IN /\ f.ret[1].raised = NoError
                 /\ Len(f.ret[1].value.suggestions) <= count

\* C8 (SpecDesigner).  suggest with count absent returns the empty sequence,
\* raises nothing and leaves the designer's attributes as they were.
C8_NoneGivesEmpty ==
    (dlast.op = "suggest" /\ dlast.count = None) =>
        /\ dlast.ret = Return(<<>>)
        /\ designer = dlast.before

\* A designer that has observed no completed trial has answered suggest().
C8_Witness ==
    /\ dlast.op = "suggest"
    /\ dlast.count = None
    /\ dlast.before._completed_trials = <<>>

\* C9 (SpecDesigner).  After update with an empty batch every suggest(count)
\* returns what it returned before the update.
C9_EmptyUpdateChangesNothing ==
    (dlast.op = "update" /\ dlast.batch = <<>>) =>
        \A count \in Counts :
            MyDesigner_suggest(designer, count).ret
              = MyDesigner_suggest(dlast.before, count).ret

\* A designer holding completed trials has just been updated with an empty
\* batch, and still holds them.
C9_Witness ==
    /\ dlast.op = "update"
    /\ dlast.batch = <<>>
    /\ dlast.before._completed_trials # <<>>
    /\ designer._completed_trials = dlast.before._completed_trials

\* C10 (SpecDisk), as claimed: after evaluate, a trial whose (x, y) lies
\* outside the unit disk is COMPLETED, has an infeasibility reason and no
\* measurement; and a trial with an infeasibility reason is always COMPLETED.
C10_InfeasibleOutsideDisk ==
    /\ evaluated # None =>
          (~InDisk(evaluated[1].before.parameters) =>
              /\ trial[1].status = "COMPLETED"
              /\ trial[1].infeasibility_reason # None
              /\ trial[1].final_measurement = None)
    /\ trial # None =>
          (trial[1].infeasibility_reason # None => trial[1].status = "COMPLETED")

\* C11 (SpecConditional).  Flattening an assignment of the conditional
\* problem keeps no adam_* parameter when optimizer is sgd and no sgd_*
\* parameter when optimizer is adam: it keeps optimizer and the children of
\* the chosen optimizer only, each with the value the assignment gave it.
C11_NoUnreachableChild ==
    dlast.op = "flatten" =>
        LET optimizer == dlast.assignment.optimizer.value
            flattened == DOMAIN dlast.ret
        IN /\ optimizer = "sgd" => flattened \cap AdamParameters = {}
           /\ optimizer = "adam" => flattened \cap SgdParameters = {}
           /\ flattened \subseteq
                 {"optimizer"} \cup (IF optimizer = "sgd" THEN SgdParameters
                                     ELSE AdamParameters)
           /\ \A name \in flattened : dlast.ret[name] = dlast.assignment[name]

\* An assignment with optimizer = sgd that also carries the three adam_*
\* values has been flattened to optimizer and sgd_learning_rate.
C11_Witness ==
    /\ dlast.op = "flatten"
    /\ dlast.assignment.optimizer.value = "sgd"
    /\ AdamParameters \subseteq DOMAIN dlast.assignment
    /\ DOMAIN dlast.ret = {"optimizer", "sgd_learning_rate"}

\* C12 (Spec).  A fetch of suggest that fails is the last fetch of the call:
\* the call has ended with that fetch's error, unchanged, in the caller's
\* hands, and with no decision, whatever suggestions it had built before.
C12_FetchFailurePropagates ==
    frame # None =>
        LET f == frame[1] IN
        \A i \in DOMAIN f.fetches :
            f.fetches[i] # NoError =>
                /\ i = Len(f.fetches)
                /\ f.pc = "raised"
                /\ f.ret = Some(Raise(f.fetches[i]))

\* The second fetch of a call for three suggestions failed, after the first
\* iteration had built a suggestion.
C12_Witness ==
    /\ frame # None
    /\ frame[1].request.count = 3
    /\ frame[1].fetches = <<NoError, RetryableError>>
    /\ Len(frame[1].suggest_decision_list) = 1
    /\ frame[1].pc = "raised"

\* C13 (Spec).  Every step of suggest, from its entry to its end, leaves
\* every persisted trial record as it was (none added, removed or altered);
\* the decision it returns has an empty metadata delta; a designer that is
\* fed the COMPLETED trials holds exactly those records, unaltered, before
\* and after its own suggest.
C13_ReadOnly ==
    [][frame' # frame =>
        LET f == frame'[1]
            completed == GetTrials(PolicySupporter, "COMPLETED")
            fed == MyDesigner_update(MyDesigner_init(study_config),
                                     CompletedTrials(completed))
        IN /\ trials' = trials
           /\ f.pc = "returned" => f.ret[1].value.metadata = <<>>
           /\ fed._completed_trials = completed
           /\ MyDesigner_suggest(fed, Some(f.request.count)).self = fed]_vars

\* suggest has returned a decision of two suggestions on a datastore that
\* holds a COMPLETED and an ACTIVE trial.
C13_Witness ==
    /\ frame # None
    /\ frame[1].pc = "returned"
    /\ Len(frame[1].ret[1].value.suggestions) = 2
    /\ GetTrials(PolicySupporter, "COMPLETED") # <<>>
    /\ GetTrials(PolicySupporter, "ACTIVE") # <<>>

\* C14 (SpecPermutation).  For every assignment of the permutation problem
\* (parameter n in 0..n) phi raises nothing and returns a list of length N
\* that holds each of 0..N-1 exactly once; and every permutation of 0..N-1
\* is what phi returns for at least one such assignment.
C14_PhiOntoPermutations ==
    /\ dlast.op = "phi" =>
          /\ dlast.ret.raised = NoError
          /\ Len(dlast.ret.value) = N
          /\ \A v \in 0..(N - 1) :
                Cardinality({i \in DOMAIN dlast.ret.value :
                                dlast.ret.value[i] = v}) = 1
    /\ dlast.op = "want" =>
          \E code \in LehmerCodes(N) :
              phi(PermutationTrial(code)) = Return(dlast.permutation)

\* phi has been applied to the assignment of the largest index, N! - 1, and
\* returned a list that starts with N - 1.
C14_Witness ==
    /\ dlast.op = "phi"
    /\ compute_index(dlast.trial) = math_factorial(N) - 1
    /\ dlast.ret.raised = NoError
    /\ dlast.ret.value[1] = N - 1

\* C15 (SpecParams), as claimed.  For a CATEGORICAL parameter with k feasible
\* values, the k consecutive indices that start at any index propose every
\* feasible value exactly once, each proposal being the value that follows
\* the previous one in the feasible values (the first follows the last), and
\* index + k proposes what index proposes.
C15_CyclesThroughValues ==
    (dlast.op = "make_parameters" /\ AllCategorical(study_config)) =>
        LET ps == study_config.search_space.parameters IN
        \A i \in DOMAIN ps :
            LET fv == ps[i].feasible_values
                k == Len(fv)
                made(j) == make_parameters(study_config, dlast.index + j)
                proposed(j) == made(j).value[ps[i].name].value
                position(v) == CHOOSE p \in DOMAIN fv : fv[p] = v
            IN /\ \A j \in 0..k : made(j).raised = NoError
               /\ made(0) = dlast.ret
               /\ \A p \in DOMAIN fv :
                     Cardinality({j \in 0..(k - 1) : proposed(j) = fv[p]}) = 1
               /\ \A j \in 0..(k - 1) :
                     position(proposed(j + 1)) = (position(proposed(j)) % k) + 1
               /\ proposed(k) = proposed(0)

\* C18 (SpecParams), as claimed.  make_parameters is all-or-nothing: on a
\* search space with a parameter that is not CATEGORICAL it raises ValueError
\* and returns no assignment, whatever CATEGORICAL parameters precede that
\* one; it returns an assignment only when every parameter is CATEGORICAL,
\* and the assignment then holds one value, a feasible one, for each
\* parameter of the search space and for nothing else.
C18_AllOrNothing ==
    dlast.op = "make_parameters" =>
        LET ps == study_config.search_space.parameters IN
        /\ ~AllCategorical(study_config) => dlast.ret = Raise("ValueError")
        /\ dlast.ret.raised # NoError => dlast.ret.value = <<>>
        /\ dlast.ret.raised = NoError =>
              /\ AllCategorical(study_config)
              /\ DOMAIN dlast.ret.value = {ps[i].name : i \in DOMAIN ps}
              /\ \A i \in DOMAIN ps :
                    \E p \in DOMAIN ps[i].feasible_values :
                        dlast.ret.value[ps[i].name]
                          = ParameterValue(ps[i].feasible_values[p])

\* C16 (SpecDesigner).  Whatever the order in which completed trials were
\* passed to update, in whatever batches and with whatever repetitions, the
\* designer returns for every count what a designer returns that received
\* the same set of trials once, in one batch, in ascending identifier order,
\* and it starts from the same index.
C16_DeliveryOrderIrrelevant ==
    LET S == {delivered[i] : i \in DOMAIN delivered}
        once == MyDesigner_update(MyDesigner_init(study_config),
                                  CompletedTrials(AscendingOnce(S)))
    IN /\ \A count \in Counts :
             MyDesigner_suggest(designer, count).ret
               = MyDesigner_suggest(once, count).ret
       /\ MyDesigner_suggest_current_index(designer)
            = MyDesigner_suggest_current_index(once)

\* suggest(2) has answered a designer that received a trial, then one of a
\* smaller identifier, then the first one again.
C16_Witness ==
    /\ dlast.op = "suggest"
    /\ dlast.count = Some(2)
    /\ Len(delivered) = 3
    /\ delivered[1].id > delivered[2].id
    /\ delivered[3] = delivered[1]
    /\ designer._completed_trials = delivered

\* C17 (Spec), as claimed: a call for count >= 1 on a study configuration
\* make_parameters rejects (a parameter that is not CATEGORICAL) issues no
\* datastore fetch, and ends with that rejection in the caller's hands.
C17_RejectedBeforeFetch ==
    frame # None =>
        LET f == frame[1] IN
        (f.request.count >= 1 /\ ~AllCategorical(f.request.study_config)) =>
            /\ f.fetches = <<>>
            /\ f.pc # "for" => f.ret = Some(Raise("ValueError"))

\* C19 (Spec).  suggest issues one fetch per iteration of its loop and none
\* besides: a fetch for every suggestion built, one more when the call ended
\* in the iteration that issued it, and count fetches when the decision is
\* returned.  Every suggestion is what make_parameters gives for the index
\* of its own fetch; the indices used in one call never decrease; and when
\* the COMPLETED trials are still those the call found, the suggestions of
\* the decision, and the indices they were built from, are identical.
C19_NoCommonSnapshot ==
    frame # None =>
        LET f == frame[1]
            built == f.suggest_decision_list
        IN Entered(f) =>
           /\ f.pc = "for" => Len(f.fetches) = Len(built)
           /\ f.pc = "raised" => Len(f.fetches) = Len(built) + 1
           /\ f.pc = "returned" =>
                 /\ Len(f.fetches) = f.request.count
                 /\ f.ret[1].value.suggestions = built
           /\ Len(f.indices) >= Len(built)
           /\ \A i \in DOMAIN built :
                 make_parameters(f.request.study_config, f.indices[i])
                   = Return(built[i].parameters)
           /\ \A i, j \in DOMAIN f.indices :
                 i <= j => f.indices[i] <= f.indices[j]
           /\ (f.pc = "returned"
               /\ GetTrials(PolicySupporter, "COMPLETED")
                    = Completed(f.datastore)) =>
                 \A i, j \in DOMAIN built :
                    built[i] = built[j] /\ f.indices[i] = f.indices[j]

\* A decision of two suggestions has been returned, the second built from a
\* larger index than the first: a trial was completed between the fetches.
C19_Witness ==
    /\ frame # None
    /\ frame[1].pc = "returned"
    /\ Len(frame[1].ret[1].value.suggestions) = 2
    /\ frame[1].fetches = <<NoError, NoError>>
    /\ frame[1].indices[1] < frame[1].indices[2]

\* C20 (Spec).  The outcome of suggest depends on the COMPLETED trials only:
\* whatever trials were added or stopped since a call the datastore answered
\* found them, as long as the COMPLETED trials are those it found, a further
\* call of the same object for the same request ends the same way from the
\* same indices; and the index proposed from moves only when a trial of a
\* larger identifier is completed.
C20_OnlyCompletedTrialsMatter ==
    frame # None =>
        LET f == frame[1]
            found == Completed(f.datastore)
            completed == GetTrials(PolicySupporter, "COMPLETED")
            index == get_next_index(PolicySupporter)
            before == IF found = <<>> THEN 0 ELSE max(Ids(found))
        IN /\ (Ended(f) /\ completed = found) =>
                 LET further == Again(f, IF Entered(f) THEN f.self
                                         ELSE MyPolicy_init(PolicySupporter))
                 IN /\ further.ret = f.ret
                    /\ Entered(f) => further.indices = f.indices
           /\ completed = found => index = before
           /\ index >= before
           /\ index > before =>
                 \E i \in DOMAIN completed :
                    /\ completed[i].id = index
                    /\ \A j \in DOMAIN found : found[j].id < index

\* A call ended from index 1; since then a trial was added and another
\* stopped, and no trial was completed.
C20_Witness ==
    /\ frame # None
    /\ Entered(frame[1])
    /\ Ended(frame[1])
    /\ frame[1].indices # <<>>
    /\ frame[1].indices[1] = 1
    /\ Len(trials) > Len(frame[1].datastore)
    /\ \E i \in DOMAIN frame[1].datastore :
          /\ frame[1].datastore[i].status = "ACTIVE"
          /\ trials[i].status = "STOPPED"
    /\ GetTrials(PolicySupporter, "COMPLETED") = Completed(frame[1].datastore)

\* C21 (SpecIndex).  On every datastore get_next_index returns 0 when no
\* trial is COMPLETED, and otherwise the identifier of a COMPLETED trial that
\* no COMPLETED trial exceeds; the values it returned to successive calls
\* never decrease, and a further call returns no less than any of them.
C21_LargestCompletedId ==
    LET index == get_next_index(PolicySupporter)
        completed == {i \in DOMAIN trials : trials[i].status = "COMPLETED"}
    IN /\ completed = {} => index = 0
       /\ completed # {} =>
             /\ \E i \in completed : trials[i].id = index
             /\ \A i \in completed : trials[i].id <= index
       /\ dlast.op = "get_next_index" =>
             /\ dlast.ret <= index
             /\ dlast.before # None => dlast.before[1] <= dlast.ret

\* get_next_index returned 0 and, called again, a larger index, and the
\* datastore now holds an ACTIVE or STOPPED trial of a larger identifier than
\* the index.
C21_Witness ==
    /\ dlast.op = "get_next_index"
    /\ dlast.before = Some(0)
    /\ dlast.ret > 0
    /\ \E i \in DOMAIN trials :
          /\ trials[i].status # "COMPLETED"
          /\ trials[i].id > get_next_index(PolicySupporter)

\* C22 (SpecPermutation).  For every assignment of the permutation problem
\* (parameter n in 0..n) compute_index is an integer from 0 to N! - 1; every
\* other such assignment has another index, and phi maps it to another
\* permutation.
C22_IndexAndPhiInjective ==
    dlast.op = "phi" =>
        LET index == compute_index(dlast.trial) IN
        /\ index \in 0..(math_factorial(N) - 1)
        /\ \A code \in LehmerCodes(N) :
              LET other == PermutationTrial(code) IN
              other # dlast.trial =>
                  /\ compute_index(other) # index
                  /\ phi(other) # dlast.ret

\* phi has been applied to the assignment of index (N - 1)!, whose
\* permutation starts with 1.
C22_Witness ==
    /\ dlast.op = "phi"
    /\ compute_index(dlast.trial) = math_factorial(N - 1)
    /\ dlast.ret.raised = NoError
    /\ dlast.ret.value[1] = 1

=============================================================================
